---- MODULE Spec2Model ----
(***************************************************************************)
(* FormatCommand (airbyte-ci, pipelines/airbyte_ci/format/format_command.py)*)
(*                                                                         *)
(* A FormatCommand snapshots part of the host working tree, runs a         *)
(* formatter on it in a container, diffs the formatted tree against the    *)
(* snapshot, classifies the outcome, optionally exports the diff back to   *)
(* the host, optionally logs, and optionally exits the process.            *)
(*                                                                         *)
(* Every await of the code is one action: between two awaits of one        *)
(* invocation the other invocations may run.                               *)
(***************************************************************************)
EXTENDS Integers, Sequences, FiniteSets, TLC

VARIABLES
    host,          \* the host working tree: path -> file
    cmd,           \* cmd[t]: the FormatCommand object (its configuration fields)
    registered,    \* the commands the CLI call invokes
    pc,            \* pc[t]: the position of invocation t
    pre,           \* pre[t]: dir_to_format, the filtered host snapshot
    warm,          \* warm[t]: the warm-up directory read from the host
    mounted,       \* mounted[t]: the repo directory inside the built container
    post,          \* post[t]: {} or {formatted_directory}
    diffdir,       \* diffdir[t]: dir_with_modified_files
    out,           \* out[t]: stdout captured by run_format
    err,           \* err[t]: stderr captured by run_format
    raised,        \* raised[t]: {} or {the dagger.ExecError raised in this invoke,
                   \* with the await it surfaced at}
    result,        \* result[t]: the CommandResult of the invoke
    returned,      \* returned[t]: {} or {the CommandResult handed to the caller}
    debug_log,     \* debug_log[t]: {} or {the file list logged at debug level}
    events,        \* events[t]: the side effects of the current invoke, in order
    invokes,       \* invokes[t]: how many times command t was invoked
    terminated,    \* sys.exit was called
    exit_code,     \* the code given to sys.exit
    exiter,        \* {} or {the invocation that called sys.exit}
    hostAtInvoke,  \* hostAtInvoke[t]: the host tree when invoke was called
    interfered     \* interfered[t]: another invocation's export changed a path
                   \* that t reads, between t's invoke and t's result

vars == <<host, cmd, registered, pc, pre, warm, mounted, post, diffdir, out, err,
          raised, result, returned, debug_log, events, invokes, terminated,
          exit_code, exiter, hostAtInvoke, interfered>>

(***************************************************************************)
(* Bounds and program constants                                            *)
(***************************************************************************)
\* how many times one command may be invoked in the process
MaxInvokes == 2
\* the modification time the formatter's writes carry; host files carry Now - 1
Now == 2
\* with_timestamps(0)
Epoch == 0
\* sys.exit(1)
ExitFailure == 1

Tasks == {1, 2}

(***************************************************************************)
(* Files and directories                                                   *)
(***************************************************************************)
\* "a": a source file, "b": a second source file, "w": a warm-up file
\* (a lockfile or build file), "g": a path under an ignored directory
Paths == {"a", "b", "w", "g"}
Absent == [content |-> "absent", mtime |-> Epoch]
File(c, m) == [content |-> c, mtime |-> m]
EmptyDir == [p \in Paths |-> Absent]

\* Directory.entries(): the paths the directory holds
Entries(d) == {p \in Paths : d[p] # Absent}

\* Host.directory(".", include=..., exclude=...)
HostDirectory(h, include, exclude) ==
    [p \in Paths |-> IF p \in include /\ p \notin exclude THEN h[p] ELSE Absent]

\* Directory.with_directory(".", other): other's files are written over d's
WithDirectory(d, other) ==
    [p \in Paths |-> IF other[p] # Absent THEN other[p] ELSE d[p]]

\* Directory.with_timestamps(ts)
WithTimestamps(d, ts) ==
    [p \in Paths |-> IF d[p] = Absent THEN Absent ELSE [d[p] EXCEPT !.mtime = ts]]

\* lower.diff(upper): the files of upper that lower does not hold as they are;
\* a file of lower that upper lacks leaves no entry
DirDiff(lower, upper) ==
    [p \in Paths |-> IF upper[p] # Absent /\ upper[p] # lower[p] THEN upper[p] ELSE Absent]

\* Directory.export("."): the directory's files are written into the host tree
ExportDir(h, d) == WithDirectory(h, d)

\* list_files_in_directory(dagger_client, directory)
list_files_in_directory(d) == Entries(d)

(***************************************************************************)
(* Formatter configuration                                                 *)
(***************************************************************************)
Formatters == {"java", "license"}
WARM_UP_INCLUSIONS == [f \in Formatters |-> IF f = "java" THEN {"w"} ELSE {}]
DEFAULT_FORMAT_IGNORE_LIST == {"g"}

\* what the format_commands of a command do to the mounted directory
Kinds == {"noop", "touch", "rewrite", "add", "remove", "crash"}
FileFilters == {{"a"}, {"b"}, {"a", "b", "g"}}

\* the formatted directory the format_commands leave at REPO_MOUNT_PATH
Fmt(kind, d) ==
    CASE kind = "noop" -> d
      [] kind = "touch" ->
            [p \in Paths |-> IF d[p] = Absent THEN Absent ELSE [d[p] EXCEPT !.mtime = Now]]
      [] kind = "rewrite" ->
            [p \in Paths |-> IF d[p] # Absent /\ d[p].content = "raw"
                             THEN File("ok", Now) ELSE d[p]]
      [] kind = "add" ->
            [d EXCEPT !["b"] = IF d["b"] = Absent THEN File("ok", Now) ELSE d["b"]]
      [] kind = "remove" -> [d EXCEPT !["a"] = Absent]
      [] OTHER -> d

\* the streams of the format container and of the ExecError it raises
Stream(kind, name) == <<kind, name>>
NoStream == <<>>
ExecError(kind) == [stdout |-> Stream(kind, "e.stdout"), stderr |-> Stream(kind, "e.stderr")]

(***************************************************************************)
(* FormatCommand                                                           *)
(***************************************************************************)
Builders == {"mount_dir", "mount_dir_and_warmup"}

\* FormatCommand.__init__: enable_logging and exit_on_failure default to True
FormatCommand(formatter, file_filter, builder, kind, export) ==
    [formatter |-> formatter,
     file_filter |-> file_filter,
     get_format_container_fn |-> builder,
     format_commands |-> kind,
     export_formatted_code |-> export,
     enable_logging |-> TRUE,
     exit_on_failure |-> TRUE]

\* slip: the include filter is not passed to the host directory
get_dir_to_format_unfiltered(c, h) == HostDirectory(h, Paths, DEFAULT_FORMAT_IGNORE_LIST)

get_dir_to_format(c, h) == HostDirectory(h, c.file_filter, DEFAULT_FORMAT_IGNORE_LIST)

\* the warm-up directory read from the host; empty when the formatter declares none
warmup_dir(c, h) ==
    HostDirectory(h, WARM_UP_INCLUSIONS[c.formatter], DEFAULT_FORMAT_IGNORE_LIST)

\* get_format_container_fn(dagger_client, dir_to_format): the directory the
\* container holds at REPO_MOUNT_PATH before the format commands run
get_format_container(c, dir, wdir) ==
    IF c.get_format_container_fn = "mount_dir_and_warmup"
    THEN WithDirectory(wdir, dir)
    ELSE dir

\* the paths of the host tree an invocation of c reads
ReadSet(c) == (c.file_filter \cup WARM_UP_INCLUSIONS[c.formatter]) \ DEFAULT_FORMAT_IGNORE_LIST

\* slip: the command is rebuilt with the default exit_on_failure
disable_logging_reset(c) == [c EXCEPT !.enable_logging = FALSE, !.exit_on_failure = TRUE]

disable_logging(c) == [c EXCEPT !.enable_logging = FALSE]

dont_exit_on_failure(c) == [c EXCEPT !.exit_on_failure = FALSE]

\* slip: the diff is taken from the formatted directory to the snapshot
run_format_reversed(c, not_formatted_code, wdir, formatted_directory) ==
    LET merged == IF WARM_UP_INCLUSIONS[c.formatter] # {}
                  THEN WithDirectory(not_formatted_code, wdir)
                  ELSE not_formatted_code
    IN  DirDiff(WithTimestamps(formatted_directory, Epoch), WithTimestamps(merged, Epoch))

\* slip: the timestamps are not set to 0 before diffing
run_format_raw_timestamps(c, not_formatted_code, wdir, formatted_directory) ==
    LET merged == IF WARM_UP_INCLUSIONS[c.formatter] # {}
                  THEN WithDirectory(not_formatted_code, wdir)
                  ELSE not_formatted_code
    IN  DirDiff(merged, formatted_directory)

\* slip: the warm-up directory is not merged into the snapshot
run_format_unmerged(c, not_formatted_code, wdir, formatted_directory) ==
    DirDiff(WithTimestamps(not_formatted_code, Epoch),
            WithTimestamps(formatted_directory, Epoch))

\* run_format: the directory with the modified files
run_format(c, not_formatted_code, wdir, formatted_directory) ==
    LET merged == IF WARM_UP_INCLUSIONS[c.formatter] # {}
                  THEN WithDirectory(not_formatted_code, wdir)
                  ELSE not_formatted_code
    IN  DirDiff(WithTimestamps(merged, Epoch), WithTimestamps(formatted_directory, Epoch))

\* CommandResult(...)
NoResult ==
    [status |-> "NONE", stdout |-> NoStream, stderr |-> NoStream,
     output_artifact |-> {}, exc_info |-> {}]

\* slip: the diff directory is not attached to the result
FailureResultNoArtifact(stdout, stderr, dir) ==
    [status |-> "FAILURE", stdout |-> stdout, stderr |-> stderr,
     output_artifact |-> {}, exc_info |-> {}]

FailureResult(stdout, stderr, dir) ==
    [status |-> "FAILURE", stdout |-> stdout, stderr |-> stderr,
     output_artifact |-> {dir}, exc_info |-> {}]

SuccessResult(stdout, stderr) ==
    [status |-> "SUCCESS", stdout |-> stdout, stderr |-> stderr,
     output_artifact |-> {}, exc_info |-> {}]

ErrorResult(e) ==
    [status |-> "FAILURE", stdout |-> e.stdout, stderr |-> e.stderr,
     output_artifact |-> {}, exc_info |-> {e}]

\* slip: the try block encloses the call of run_format alone
TryBlockRunFormatOnly == {"diff", "stdout", "stderr"}

\* the awaits of get_format_command_result that the try block encloses
TryBlock == {"diff", "stdout", "stderr", "entries", "list"}

\* slip: the exit precedes the export and the log
InvokeStepsExitFirst == <<"exit", "export", "log">>

\* invoke, after the result: export, then log, then exit
InvokeSteps == <<"export", "log", "exit">>

\* slip: the export flag is not consulted
ShouldExportAnyArtifact(c, r) == r.output_artifact # {}

ShouldExport(c, r) == r.output_artifact # {} /\ c.export_formatted_code

ShouldLog(c) == c.enable_logging

\* slip: the status is not consulted
ShouldExitAnyStatus(c, r) == c.exit_on_failure

ShouldExit(c, r) == r.status = "FAILURE" /\ c.exit_on_failure

StepAfter(s) ==
    LET i == CHOOSE k \in 1..Len(InvokeSteps) : InvokeSteps[k] = s
    IN  IF i < Len(InvokeSteps) THEN InvokeSteps[i + 1] ELSE "return"

(***************************************************************************)
(* Initial states                                                          *)
(***************************************************************************)
HostTrees ==
    {[p \in Paths |-> CASE p = "a" -> File(ca, Now - 1)
                        [] p = "b" -> IF hasB THEN File("raw", Now - 1) ELSE Absent
                        [] p = "w" -> File(cw, Now - 1)
                        [] OTHER -> File("raw", Now - 1)] :
        ca \in {"ok", "raw"}, cw \in {"ok", "raw"}, hasB \in BOOLEAN}

Commands ==
    {FormatCommand(f, ff, b, k, x) :
        f \in Formatters, ff \in FileFilters, b \in Builders, k \in Kinds, x \in BOOLEAN}

\* a builder mounts a warm-up directory only for a formatter that declares one
WellFormed(c) ==
    c.get_format_container_fn = "mount_dir_and_warmup" => WARM_UP_INCLUSIONS[c.formatter] # {}

DefaultCommand == FormatCommand("license", {"a"}, "mount_dir", "noop", FALSE)

InitLocals ==
    /\ pc = [t \in Tasks |-> "idle"]
    /\ pre = [t \in Tasks |-> EmptyDir]
    /\ warm = [t \in Tasks |-> EmptyDir]
    /\ mounted = [t \in Tasks |-> EmptyDir]
    /\ post = [t \in Tasks |-> {}]
    /\ diffdir = [t \in Tasks |-> EmptyDir]
    /\ out = [t \in Tasks |-> NoStream]
    /\ err = [t \in Tasks |-> NoStream]
    /\ raised = [t \in Tasks |-> {}]
    /\ result = [t \in Tasks |-> NoResult]
    /\ returned = [t \in Tasks |-> {}]
    /\ debug_log = [t \in Tasks |-> {}]
    /\ events = [t \in Tasks |-> <<>>]
    /\ invokes = [t \in Tasks |-> 0]
    /\ terminated = FALSE
    /\ exit_code = 0
    /\ exiter = {}
    /\ hostAtInvoke = [t \in Tasks |-> host]
    /\ interfered = [t \in Tasks |-> FALSE]

\* one command, invoked by one CLI call
Init ==
    /\ host \in HostTrees
    /\ registered = {1}
    /\ \E c \in {x \in Commands : WellFormed(x)} :
          cmd = [t \in Tasks |-> IF t = 1 THEN c ELSE DefaultCommand]
    /\ InitLocals

(***************************************************************************)
(* Actions                                                                 *)
(***************************************************************************)
Set(f, t, v) == [f EXCEPT ![t] = v]

\* the position after result computation, and after step s of invoke
Finish(t, s, r) ==
    IF s = "return"
    THEN /\ pc' = Set(pc, t, "done")
         /\ returned' = Set(returned, t, {r})
    ELSE /\ pc' = Set(pc, t, s)
         /\ UNCHANGED returned

\* invoke is entered: await get_dagger_client
Begin(t) ==
    /\ ~terminated
    /\ t \in registered
    /\ pc' = Set(pc, t, "snapshot")
    /\ pre' = Set(pre, t, EmptyDir)
    /\ warm' = Set(warm, t, EmptyDir)
    /\ mounted' = Set(mounted, t, EmptyDir)
    /\ post' = Set(post, t, {})
    /\ diffdir' = Set(diffdir, t, EmptyDir)
    /\ out' = Set(out, t, NoStream)
    /\ err' = Set(err, t, NoStream)
    /\ raised' = Set(raised, t, {})
    /\ result' = Set(result, t, NoResult)
    /\ returned' = Set(returned, t, {})
    /\ debug_log' = Set(debug_log, t, {})
    /\ events' = Set(events, t, <<>>)
    /\ invokes' = Set(invokes, t, invokes[t] + 1)
    /\ hostAtInvoke' = Set(hostAtInvoke, t, host)
    /\ interfered' = Set(interfered, t, FALSE)
    /\ UNCHANGED <<host, cmd, registered, terminated, exit_code, exiter>>

Invoke(t) ==
    /\ pc[t] = "idle"
    /\ Begin(t)

\* the command is invoked again after an invoke that returned
InvokeAgain(t) ==
    /\ pc[t] = "done"
    /\ invokes[t] < MaxInvokes
    /\ Begin(t)

\* the engine reads the host directories and builds the container
Snapshot(t) ==
    /\ ~terminated
    /\ pc[t] = "snapshot"
    /\ LET dir == get_dir_to_format(cmd[t], host)
           wdir == warmup_dir(cmd[t], host)
       IN  /\ pre' = Set(pre, t, dir)
           /\ warm' = Set(warm, t, wdir)
           /\ mounted' = Set(mounted, t, get_format_container(cmd[t], dir, wdir))
    /\ pc' = Set(pc, t, "exec")
    /\ UNCHANGED <<host, cmd, registered, post, diffdir, out, err, raised, result,
                   returned, debug_log, events, invokes, terminated, exit_code,
                   exiter, hostAtInvoke, interfered>>

\* container.with_exec(sh_dash_c(format_commands)): the format commands run
Exec(t) ==
    /\ ~terminated
    /\ pc[t] = "exec"
    /\ post' = Set(post, t, IF cmd[t].format_commands = "crash"
                            THEN {}
                            ELSE {Fmt(cmd[t].format_commands, mounted[t])})
    /\ pc' = Set(pc, t, "diff")
    /\ UNCHANGED <<host, cmd, registered, pre, warm, mounted, diffdir, out, err,
                   raised, result, returned, debug_log, events, invokes,
                   terminated, exit_code, exiter, hostAtInvoke, interfered>>

\* a dagger.ExecError e surfaces at an await of get_format_command_result
Raise(t, stage, e) ==
    /\ raised' = Set(raised, t, {[error |-> e, stage |-> stage]})
    /\ IF stage \in TryBlock
       THEN /\ result' = Set(result, t, ErrorResult(e))
            /\ events' = Set(events, t, Append(events[t], "result"))
            /\ Finish(t, InvokeSteps[1], ErrorResult(e))
       ELSE /\ pc' = Set(pc, t, "raised")
            /\ UNCHANGED <<result, events, returned>>

Crashed(t) == cmd[t].format_commands = "crash"

\* await not_formatted_code.with_timestamps(0).diff(...)
DiffRaise(t) ==
    /\ ~terminated
    /\ pc[t] = "diff"
    /\ Crashed(t)
    /\ Raise(t, "diff", ExecError(cmd[t].format_commands))
    /\ UNCHANGED <<host, cmd, registered, pre, warm, mounted, post, diffdir, out,
                   err, debug_log, invokes, terminated, exit_code, exiter,
                   hostAtInvoke, interfered>>

\* a crashed exec whose failure the engine has not surfaced yet keeps the
\* handle lazy; otherwise the diff directory is computed
Diff(t) ==
    /\ ~terminated
    /\ pc[t] = "diff"
    /\ diffdir' = Set(diffdir, t,
                      IF Crashed(t) THEN EmptyDir
                      ELSE run_format(cmd[t], pre[t], warm[t], CHOOSE d \in post[t] : TRUE))
    /\ pc' = Set(pc, t, "stdout")
    /\ UNCHANGED <<host, cmd, registered, pre, warm, mounted, post, out, err,
                   raised, result, returned, debug_log, events, invokes,
                   terminated, exit_code, exiter, hostAtInvoke, interfered>>

\* await format_container.stdout()
StdoutRaise(t) ==
    /\ ~terminated
    /\ pc[t] = "stdout"
    /\ Crashed(t)
    /\ Raise(t, "stdout", ExecError(cmd[t].format_commands))
    /\ UNCHANGED <<host, cmd, registered, pre, warm, mounted, post, diffdir, out,
                   err, debug_log, invokes, terminated, exit_code, exiter,
                   hostAtInvoke, interfered>>

Stdout(t) ==
    /\ ~terminated
    /\ pc[t] = "stdout"
    /\ out' = Set(out, t, IF Crashed(t) THEN NoStream
                          ELSE Stream(cmd[t].format_commands, "stdout"))
    /\ pc' = Set(pc, t, "stderr")
    /\ UNCHANGED <<host, cmd, registered, pre, warm, mounted, post, diffdir, err,
                   raised, result, returned, debug_log, events, invokes,
                   terminated, exit_code, exiter, hostAtInvoke, interfered>>

\* await format_container.stderr()
StderrRaise(t) ==
    /\ ~terminated
    /\ pc[t] = "stderr"
    /\ Crashed(t)
    /\ Raise(t, "stderr", ExecError(cmd[t].format_commands))
    /\ UNCHANGED <<host, cmd, registered, pre, warm, mounted, post, diffdir, out,
                   err, debug_log, invokes, terminated, exit_code, exiter,
                   hostAtInvoke, interfered>>

Stderr(t) ==
    /\ ~terminated
    /\ pc[t] = "stderr"
    /\ err' = Set(err, t, IF Crashed(t) THEN NoStream
                          ELSE Stream(cmd[t].format_commands, "stderr"))
    /\ pc' = Set(pc, t, "entries")
    /\ UNCHANGED <<host, cmd, registered, pre, warm, mounted, post, diffdir, out,
                   raised, result, returned, debug_log, events, invokes,
                   terminated, exit_code, exiter, hostAtInvoke, interfered>>

\* await dir_with_modified_files.entries(): reading the entries forces the exec
EntriesRaise(t) ==
    /\ ~terminated
    /\ pc[t] = "entries"
    /\ Crashed(t)
    /\ Raise(t, "entries", ExecError(cmd[t].format_commands))
    /\ UNCHANGED <<host, cmd, registered, pre, warm, mounted, post, diffdir, out,
                   err, debug_log, invokes, terminated, exit_code, exiter,
                   hostAtInvoke, interfered>>

\* the diff directory has entries: go on to list them
EntriesSome(t) ==
    /\ ~terminated
    /\ pc[t] = "entries"
    /\ ~Crashed(t)
    /\ Entries(diffdir[t]) # {}
    /\ pc' = Set(pc, t, "list")
    /\ UNCHANGED <<host, cmd, registered, pre, warm, mounted, post, diffdir, out,
                   err, raised, result, returned, debug_log, events, invokes,
                   terminated, exit_code, exiter, hostAtInvoke, interfered>>

\* the diff directory is empty: SUCCESS
EntriesNone(t) ==
    /\ ~terminated
    /\ pc[t] = "entries"
    /\ ~Crashed(t)
    /\ Entries(diffdir[t]) = {}
    /\ result' = Set(result, t, SuccessResult(out[t], err[t]))
    /\ events' = Set(events, t, Append(events[t], "result"))
    /\ Finish(t, InvokeSteps[1], SuccessResult(out[t], err[t]))
    /\ UNCHANGED <<host, cmd, registered, pre, warm, mounted, post, diffdir, out,
                   err, raised, debug_log, invokes, terminated, exit_code, exiter,
                   hostAtInvoke, interfered>>

\* await list_files_in_directory(...): the listing container fails
ListRaise(t) ==
    /\ ~terminated
    /\ pc[t] = "list"
    /\ Raise(t, "list", ExecError("find"))
    /\ UNCHANGED <<host, cmd, registered, pre, warm, mounted, post, diffdir, out,
                   err, debug_log, invokes, terminated, exit_code, exiter,
                   hostAtInvoke, interfered>>

\* the modified files are listed and logged at debug level: FAILURE with the diff
List(t) ==
    /\ ~terminated
    /\ pc[t] = "list"
    /\ debug_log' = Set(debug_log, t, {list_files_in_directory(diffdir[t])})
    /\ result' = Set(result, t, FailureResult(out[t], err[t], diffdir[t]))
    /\ events' = Set(events, t, Append(events[t], "result"))
    /\ Finish(t, InvokeSteps[1], FailureResult(out[t], err[t], diffdir[t]))
    /\ UNCHANGED <<host, cmd, registered, pre, warm, mounted, post, diffdir, out,
                   err, raised, invokes, terminated, exit_code, exiter,
                   hostAtInvoke, interfered>>

\* the positions of an invoke whose result is not yet computed
InFlight == {"snapshot", "exec", "diff", "stdout", "stderr", "entries", "list"}

\* if (formatted_code_dir := command_result.output_artifact) and
\* self.export_formatted_code: await formatted_code_dir.export(".")
Export(t) ==
    /\ ~terminated
    /\ pc[t] = "export"
    /\ IF ShouldExport(cmd[t], result[t])
       THEN /\ host' = ExportDir(host, CHOOSE d \in result[t].output_artifact : TRUE)
            /\ events' = Set(events, t, Append(events[t], "export"))
            /\ interfered' =
                  [u \in Tasks |->
                      \/ interfered[u]
                      \/ /\ u # t
                         /\ pc[u] \in InFlight
                         /\ \E p \in ReadSet(cmd[u]) : host'[p] # host[p]]
       ELSE UNCHANGED <<host, events, interfered>>
    /\ Finish(t, StepAfter("export"), result[t])
    /\ UNCHANGED <<cmd, registered, pre, warm, mounted, post, diffdir, out, err,
                   raised, result, debug_log, invokes, terminated, exit_code,
                   exiter, hostAtInvoke>>

\* if self.enable_logging: log_command_results(...)
Log(t) ==
    /\ ~terminated
    /\ pc[t] = "log"
    /\ events' = Set(events, t, IF ShouldLog(cmd[t])
                                 THEN Append(events[t], "log")
                                 ELSE events[t])
    /\ Finish(t, StepAfter("log"), result[t])
    /\ UNCHANGED <<host, cmd, registered, pre, warm, mounted, post, diffdir, out,
                   err, raised, result, debug_log, invokes, terminated, exit_code,
                   exiter, hostAtInvoke, interfered>>

\* if command_result.status is StepStatus.FAILURE and self.exit_on_failure:
\* sys.exit(1)
Exit(t) ==
    /\ ~terminated
    /\ pc[t] = "exit"
    /\ ShouldExit(cmd[t], result[t])
    /\ terminated' = TRUE
    /\ exit_code' = ExitFailure
    /\ exiter' = {t}
    /\ events' = Set(events, t, Append(events[t], "exit"))
    /\ pc' = Set(pc, t, "exited")
    /\ UNCHANGED <<host, cmd, registered, pre, warm, mounted, post, diffdir, out,
                   err, raised, result, returned, debug_log, invokes,
                   hostAtInvoke, interfered>>

\* the exit condition is false: invoke goes on
NoExit(t) ==
    /\ ~terminated
    /\ pc[t] = "exit"
    /\ ~ShouldExit(cmd[t], result[t])
    /\ Finish(t, StepAfter("exit"), result[t])
    /\ UNCHANGED <<host, cmd, registered, pre, warm, mounted, post, diffdir, out,
                   err, raised, result, debug_log, events, invokes, terminated,
                   exit_code, exiter, hostAtInvoke, interfered>>

DisableLogging(t) ==
    /\ ~terminated
    /\ t \in registered
    /\ cmd' = Set(cmd, t, disable_logging(cmd[t]))
    /\ UNCHANGED <<host, registered, pc, pre, warm, mounted, post, diffdir, out,
                   err, raised, result, returned, debug_log, events, invokes,
                   terminated, exit_code, exiter, hostAtInvoke, interfered>>

DontExitOnFailure(t) ==
    /\ ~terminated
    /\ t \in registered
    /\ cmd' = Set(cmd, t, dont_exit_on_failure(cmd[t]))
    /\ UNCHANGED <<host, registered, pc, pre, warm, mounted, post, diffdir, out,
                   err, raised, result, returned, debug_log, events, invokes,
                   terminated, exit_code, exiter, hostAtInvoke, interfered>>

\* the steps of one invoke
InvokeStep(t) ==
    \/ Snapshot(t) \/ Exec(t)
    \/ DiffRaise(t) \/ Diff(t)
    \/ StdoutRaise(t) \/ Stdout(t)
    \/ StderrRaise(t) \/ Stderr(t)
    \/ EntriesRaise(t) \/ EntriesSome(t) \/ EntriesNone(t)
    \/ ListRaise(t) \/ List(t)
    \/ Export(t) \/ Log(t)
    \/ Exit(t) \/ NoExit(t)

Next ==
    \E t \in Tasks :
        \/ Invoke(t) \/ InvokeAgain(t)
        \/ DisableLogging(t) \/ DontExitOnFailure(t)
        \/ InvokeStep(t)

Spec == Init /\ [][Next]_vars

(***************************************************************************)
(* Several commands invoked concurrently by one CLI call, each once        *)
(***************************************************************************)
ConcCommands ==
    {c \in Commands :
        /\ c.format_commands \in {"rewrite", "add", "crash"}
        /\ c.get_format_container_fn = "mount_dir_and_warmup" <=> c.formatter = "java"}

InitConc ==
    /\ host \in {h \in HostTrees : /\ h["a"].content = "raw"
                                   /\ h["w"].content = "raw"
                                   /\ h["b"] = Absent}
    /\ registered = Tasks
    /\ cmd \in [Tasks -> ConcCommands]
    /\ InitLocals

NextConc == \E t \in Tasks : Invoke(t) \/ InvokeStep(t)

SpecConc == InitConc /\ [][NextConc]_vars

(***************************************************************************)
(* Properties                                                              *)
(***************************************************************************)
HasResult(t) == result[t].status # "NONE"

Norm(d) == WithTimestamps(d, Epoch)

\* the pre-format directory the diff is taken against: the snapshot, with the
\* warm-up directory merged in when the formatter declares a warm-up set
PreFormat(t) ==
    IF WARM_UP_INCLUSIONS[cmd[t].formatter] # {}
    THEN WithDirectory(pre[t], warm[t])
    ELSE pre[t]

PostFormat(t) == CHOOSE d \in post[t] : TRUE

Artifact(t) == CHOOSE d \in result[t].output_artifact : TRUE

\* the exec completed and its formatted directory was diffed
DiffDone(t) == post[t] # {} /\ pc[t] \notin {"idle", "snapshot", "exec", "diff"}

\* C1: the CommandResult of an invoke has output_artifact set if and only if
\* its status is FAILURE because the diff directory was non-empty; it is unset
\* on SUCCESS and on a FAILURE that comes from a caught ExecError.
C1_ArtifactIffDiffFailure ==
    \A t \in Tasks :
        HasResult(t) =>
            /\ result[t].output_artifact # {} <=>
                  /\ result[t].status = "FAILURE"
                  /\ raised[t] = {}
                  /\ Entries(diffdir[t]) # {}
            /\ result[t].output_artifact # {} => result[t].output_artifact = {diffdir[t]}
            /\ result[t].status = "SUCCESS" => result[t].output_artifact = {}
            /\ raised[t] # {} =>
                  result[t].status = "FAILURE" /\ result[t].output_artifact = {}

C1_Witness ==
    \E t \in Tasks :
        /\ result[t].status = "FAILURE"
        /\ raised[t] = {}
        /\ result[t].output_artifact = {diffdir[t]}
        /\ Entries(diffdir[t]) # {}

\* the paths at which the pre-format and the post-format directory differ:
\* content changed, file added, or file removed
Differing(t) ==
    {p \in Paths : Norm(PreFormat(t))[p] # Norm(PostFormat(t))[p]}

\* the paths the post-format directory holds that are new or changed
AddedOrChanged(t) ==
    {p \in Differing(t) : PostFormat(t)[p] # Absent}

\* C2 as stated: whenever the formatter, run on the pre-format directory,
\* leaves at least one file different (changed, added or removed), the status
\* is FAILURE, output_artifact holds exactly the differing files and the
\* logged paths are the diff's entries.
C2_AnyDifferenceFails ==
    \A t \in Tasks :
        (HasResult(t) /\ post[t] # {} /\ mounted[t] = PreFormat(t)
            /\ Differing(t) # {}) =>
            /\ result[t].status = "FAILURE"
            /\ result[t].output_artifact # {}
            /\ Entries(Artifact(t)) = Differing(t)
            /\ debug_log[t] = {Differing(t)}

\* C2 amended: whenever no ExecError is raised and at least one file of the
\* post-format directory is new or differs in content from the pre-format
\* directory, the status is FAILURE, output_artifact holds exactly the added
\* and changed files as formatted (a removed file leaves no entry), and the
\* logged paths are the diff's entries.
C2_AddedOrChangedFails ==
    \A t \in Tasks :
        (HasResult(t) /\ post[t] # {} /\ raised[t] = {} /\ AddedOrChanged(t) # {}) =>
            /\ result[t].status = "FAILURE"
            /\ result[t].output_artifact # {}
            /\ Entries(Artifact(t)) = AddedOrChanged(t)
            /\ \A p \in AddedOrChanged(t) : Artifact(t)[p] = Norm(PostFormat(t))[p]
            /\ debug_log[t] = {Entries(Artifact(t))}

C2_Witness ==
    \E t \in Tasks :
        /\ HasResult(t) /\ post[t] # {} /\ raised[t] = {}
        /\ AddedOrChanged(t) # {}
        /\ Differing(t) # AddedOrChanged(t)
        /\ result[t].status = "FAILURE"
        /\ debug_log[t] = {AddedOrChanged(t)}

\* C3: when no ExecError is raised and the post-format directory equals the
\* pre-format directory once both have their timestamps set to 0, the status
\* is SUCCESS and output_artifact is absent.
C3_IdenticalSucceeds ==
    \A t \in Tasks :
        (HasResult(t) /\ post[t] # {} /\ raised[t] = {}
            /\ Norm(PostFormat(t)) = Norm(PreFormat(t))) =>
            /\ result[t].status = "SUCCESS"
            /\ result[t].output_artifact = {}

\* the formatter rewrote files without changing their content: the trees
\* differ by timestamps alone
C3_Witness ==
    \E t \in Tasks :
        /\ HasResult(t) /\ post[t] # {} /\ raised[t] = {}
        /\ Entries(PostFormat(t)) # {}
        /\ PostFormat(t) # PreFormat(t)
        /\ Norm(PostFormat(t)) = Norm(PreFormat(t))
        /\ result[t].status = "SUCCESS"

\* C4: an ExecError raised at any await of get_format_command_result is
\* caught, never propagated: the result is FAILURE with no output_artifact,
\* the error's stdout and stderr, and the error as exception info, and that
\* result is what invoke hands to its caller.
C4_ExecErrorCaught ==
    \A t \in Tasks :
        /\ pc[t] # "raised"
        /\ raised[t] # {} =>
              \E r \in raised[t] :
                  /\ result[t] = [status |-> "FAILURE",
                                  stdout |-> r.error.stdout,
                                  stderr |-> r.error.stderr,
                                  output_artifact |-> {},
                                  exc_info |-> {r.error}]
                  /\ pc[t] = "done" => returned[t] = {result[t]}

\* the listing of a non-empty diff directory failed, after a successful format
C4_Witness ==
    \E t \in Tasks :
        /\ pc[t] = "done"
        /\ \E r \in raised[t] : r.stage = "list"
        /\ Entries(diffdir[t]) # {}
        /\ returned[t] = {result[t]}
        /\ result[t].status = "FAILURE"

\* invocation t takes the export step of invoke
ExportStepOf(t) == pc[t] = "export" /\ pc'[t] # "export"

\* C5: the export step of invoke writes the artifact's files over the host
\* tree, leaving every other path as it was, when export_formatted_code is set
\* and the result is a FAILURE with an output artifact; when the flag is not
\* set or the result has no artifact, invoke leaves the host tree unchanged,
\* as does every other step.
C5_ExportFrame ==
    [][ /\ \A t \in Tasks :
              ExportStepOf(t) =>
                  IF cmd[t].export_formatted_code /\ result[t].output_artifact # {}
                  THEN /\ result[t].status = "FAILURE"
                       /\ \A p \in Paths :
                              host'[p] = IF Artifact(t)[p] # Absent
                                         THEN Artifact(t)[p]
                                         ELSE host[p]
                  ELSE host' = host
        /\ (\A t \in Tasks : ~ExportStepOf(t)) => host' = host
      ]_vars

\* the artifact was exported and changed the host tree
C5_Witness ==
    \E t \in Tasks :
        /\ pc[t] = "log"
        /\ events[t] = <<"result", "export">>
        /\ cmd[t].export_formatted_code
        /\ host # hostAtInvoke[t]
        /\ \A p \in Entries(Artifact(t)) : host[p] = Artifact(t)[p]

\* invocation t takes the exit step of invoke
ExitStepOf(t) == pc[t] = "exit" /\ pc'[t] # "exit"

\* C6: invoke terminates the process, with exit code 1, if and only if
\* exit_on_failure is set and the result's status is FAILURE; otherwise it
\* does not terminate the process and returns the CommandResult.
C6_ExitIffFailureAndFlag ==
    [][ /\ \A t \in Tasks :
              ExitStepOf(t) =>
                  IF cmd[t].exit_on_failure /\ result[t].status = "FAILURE"
                  THEN /\ terminated' /\ exit_code' = 1 /\ exiter' = {t}
                       /\ returned'[t] = {}
                  ELSE /\ ~terminated'
                       /\ pc'[t] = "done"
                       /\ returned'[t] = {result[t]}
        /\ (\A t \in Tasks : ~ExitStepOf(t)) => (terminated' = terminated)
      ]_vars

\* a FAILURE with exit_on_failure set: the process exited with code 1
C6_Witness ==
    \E t \in Tasks :
        /\ terminated /\ exit_code = 1 /\ exiter = {t}
        /\ result[t].status = "FAILURE"
        /\ cmd[t].exit_on_failure
        /\ returned[t] = {}

\* the events invoke has produced when it exits the process
ExpectedAtExit(t, logged) ==
    <<"result">>
    \o (IF cmd[t].export_formatted_code /\ result[t].output_artifact # {}
        THEN <<"export">> ELSE <<>>)
    \o (IF logged THEN <<"log">> ELSE <<>>)
    \o <<"exit">>

\* C8: when invoke has terminated the process, its side effects happened in
\* the order result, export, log, exit: the export (if export is enabled and
\* an artifact exists) is complete, the summary (if logging is enabled) was
\* emitted exactly once, and nothing follows the exit.
C8_OrderAtExit ==
    \A t \in exiter :
        /\ terminated
        /\ pc[t] = "exited"
        /\ events[t] \in {ExpectedAtExit(t, TRUE), ExpectedAtExit(t, FALSE)}
        /\ cmd[t].enable_logging => events[t] = ExpectedAtExit(t, TRUE)

C8_Witness ==
    \E t \in exiter :
        /\ terminated
        /\ events[t] = <<"result", "export", "log", "exit">>

\* the warm-up files the format container holds after the format commands
\* exactly as it held them before
UnchangedWarmUp(t) ==
    {p \in WARM_UP_INCLUSIONS[cmd[t].formatter] :
        PostFormat(t)[p] # Absent /\ Norm(PostFormat(t))[p] = Norm(mounted[t])[p]}

\* C9: with a warm-up set declared, the warm-up directory is merged into the
\* pre-format snapshot before diffing: a warm-up file that the post-format
\* directory holds unchanged is no entry of the diff directory, and when
\* nothing else is new or changed the result is SUCCESS. With no warm-up set
\* declared the snapshot is diffed as it is.
C9_WarmUpMerged ==
    \A t \in Tasks :
        DiffDone(t) =>
            /\ Entries(diffdir[t]) \cap UnchangedWarmUp(t) = {}
            /\ (/\ HasResult(t) /\ raised[t] = {}
                /\ \A p \in Paths \ UnchangedWarmUp(t) :
                       \/ PostFormat(t)[p] = Absent
                       \/ Norm(PostFormat(t))[p] = Norm(pre[t])[p])
               => result[t].status = "SUCCESS"
            /\ WARM_UP_INCLUSIONS[cmd[t].formatter] = {} =>
                  diffdir[t] = DirDiff(Norm(pre[t]), Norm(PostFormat(t)))

\* a warm-up file outside the file filter sits unchanged in the post-format
\* directory and the result is SUCCESS
C9_Witness ==
    \E t \in Tasks :
        /\ DiffDone(t) /\ HasResult(t)
        /\ \E p \in UnchangedWarmUp(t) : pre[t][p] = Absent
        /\ result[t].status = "SUCCESS"

\* the number of result summaries invoke has emitted
Logged(t) == Cardinality({i \in 1..Len(events[t]) : events[t][i] = "log"})

\* C10: disable_logging and dont_exit_on_failure change the command by
\* setting one flag to false and nothing else; no step sets a flag back to
\* true; once exit_on_failure is false no invoke of the command terminates the
\* process, and once enable_logging is false no invoke of it emits a summary.
C10_FlagsOnlyCleared ==
    [][ \A t \in Tasks :
          /\ cmd'[t] # cmd[t] =>
                \/ /\ cmd[t].enable_logging
                   /\ cmd'[t] = [cmd[t] EXCEPT !.enable_logging = FALSE]
                \/ /\ cmd[t].exit_on_failure
                   /\ cmd'[t] = [cmd[t] EXCEPT !.exit_on_failure = FALSE]
          /\ ~cmd[t].enable_logging => ~cmd'[t].enable_logging
          /\ ~cmd[t].exit_on_failure => ~cmd'[t].exit_on_failure
          /\ ~cmd[t].exit_on_failure => ~(terminated' /\ t \in exiter')
          /\ ~cmd[t].enable_logging =>
                (events'[t] = <<>> \/ Logged(t)' = Logged(t))
      ]_vars

\* with both flags cleared, a second invoke ended in FAILURE, returned it and
\* logged nothing
C10_Witness ==
    \E t \in Tasks :
        /\ ~cmd[t].enable_logging /\ ~cmd[t].exit_on_failure
        /\ invokes[t] = MaxInvokes
        /\ pc[t] = "done"
        /\ result[t].status = "FAILURE"
        /\ returned[t] = {result[t]}
        /\ Logged(t) = 0
        /\ ~terminated

\* the CommandResults an invoke of command c can compute when it runs alone
\* on host tree h
AloneResults(c, h) ==
    LET dir == get_dir_to_format(c, h)
        wdir == warmup_dir(c, h)
        kind == c.format_commands
        d == run_format(c, dir, wdir, Fmt(kind, get_format_container(c, dir, wdir)))
        so == Stream(kind, "stdout")
        se == Stream(kind, "stderr")
    IN  IF kind = "crash" THEN {ErrorResult(ExecError(kind))}
        ELSE IF Entries(d) = {} THEN {SuccessResult(so, se)}
        ELSE {FailureResult(so, se, d), ErrorResult(ExecError("find"))}

\* C7 as stated: for every interleaving, the CommandResult of an invocation,
\* and with it the directory it exports, is one it computes when it runs alone
\* on the host tree it was invoked on, also when export is enabled and the
\* invocations read overlapping paths of the host tree.
C7_ResultAsAlone ==
    \A t \in Tasks :
        HasResult(t) => result[t] \in AloneResults(cmd[t], hostAtInvoke[t])

\* C7 amended: the CommandResult of an invocation, and with it the directory
\* it exports, is one it computes when it runs alone on the host tree it was
\* invoked on, provided no other invocation's export changed a path that its
\* file filter or warm-up set reads while its result was being computed.
C7_ResultAsAloneUnlessOverwritten ==
    \A t \in Tasks :
        (HasResult(t) /\ ~interfered[t]) =>
            result[t] \in AloneResults(cmd[t], hostAtInvoke[t])

\* another invocation exported into the host tree while t was computing its
\* result, outside the paths t reads
C7_Witness ==
    \E t \in Tasks : \E u \in Tasks \ {t} :
        /\ HasResult(t) /\ ~interfered[t]
        /\ "export" \notin {events[t][i] : i \in 1..Len(events[t])}
        /\ "export" \in {events[u][i] : i \in 1..Len(events[u])}
        /\ host # hostAtInvoke[t]
        /\ result[t].status = "FAILURE" /\ result[t].output_artifact # {}

====
